---- MODULE Spec2Model ----
(***************************************************************************)
(* Post lifecycle and authorization of the blog API.                      *)
(*                                                                         *)
(* The store holds Post documents; every route handler is an async        *)
(* function whose awaits split it into a part that reads the store and a   *)
(* part that writes it, so two requests can interleave between the two.    *)
(* A document's save() writes only the paths whose value differs from the  *)
(* value that was read; findByIdAndUpdate writes the request body as is.   *)
(*                                                                         *)
(* Strings that are only measured and trimmed (the rejection reason) are   *)
(* triples <<lead, core, trail>>: the count of leading whitespace, of the  *)
(* characters from the first to the last non-whitespace one, and of        *)
(* trailing whitespace.  A date is either null or set: new Date() is the   *)
(* one value newDate.                                                      *)
(* Titles, contents and categories are taken to be valid and are not       *)
(* measured; content, excerpt, tags, seo, likeCount and commentCount are    *)
(* not part of the state: POST /posts/:id/like writes likeCount and, like  *)
(* every save, what the pre-save hook changes, which the save of GET       *)
(* /posts/:id shows as well.                                               *)
(* A request in flight carries the flag stale, a history variable that is  *)
(* set when another request writes the same post after this one read it.   *)
(*                                                                         *)
(* The User collection is users: a function from the ids of the existing   *)
(* users to their role and isActive flag.  now is the clock that Date.now() *)
(* reads, and call is a call of a function or of the middleware chain with *)
(* its arguments and its result.  In the runs about registration users is *)
(* the sequence of the User documents with their username and email.  In   *)
(* the runs about the client, call is the AuthProvider (the reducer's      *)
(* state, localStorage, the query) and reqs the requests the client has in *)
(* flight.                                                                 *)
(***************************************************************************)
EXTENDS Integers, Sequences, FiniteSets, Bags, TLC

VARIABLES posts, nextId, reqs, resp, users, now, call

vars == <<posts, nextId, reqs, resp, users, now, call>>

(* ---------------- bounds ---------------- *)
MaxViews == 1

(* the posts created in the runs about slugs *)
MaxPosts == 2

(* the longest title the client form's slug is derived from *)
MaxTitleLen == 3

(* the last tick of the clock *)
MaxNow == 2

(* list requests: the records matching the filter, the page, the limit *)
MaxRecords == 12
MaxPage == 4
MaxLimit == 5

(* the strings handed to validatePasswordStrength: the longest one, before  *)
(* it is doubled                                                           *)
MaxPasswordLen == 5

(* the retries a run of requestUtils.retry starts with, at most *)
MaxRetries == 3

(* the documents of the User collection in the runs about registration *)
MaxUsers == 3

(* the client: the requests it has in flight, and its logouts *)
MaxClientRequests == 2
MaxLogouts == 2

(* ---------------- program constants ---------------- *)
ReasonMin == 10
ReasonMax == 500

(* ---------------- principals ---------------- *)
NoToken == "anon"
Users == {"u1", "m1", "a1"}
Principals == Users \cup {NoToken}

Role == [u \in Users |-> CASE u = "u1" -> "user"
                           [] u = "m1" -> "moderator"
                           [] u = "a1" -> "admin"]

PostIds == {1}
InFlight == {0, 1}

NullDate == "null"
newDate == "date"
NullRef == "null"
NullStr == <<>>
Undefined == "undefined"

(* ---------------- strings ---------------- *)
StrLen(s) == IF s = NullStr THEN 0 ELSE s[1] + s[2] + s[3]

trim(s) == IF s = NullStr THEN s ELSE <<0, s[2], 0>>

(* the isLength check with the upper limit left out *)
reasonIsLength_noMax(raw) == StrLen(raw) >= ReasonMin

(* body('reason').isLength({min: 10, max: 500}) runs on the raw value;     *)
(* a missing reason is measured as the empty string.                       *)
reasonIsLength(raw) == StrLen(raw) >= ReasonMin /\ StrLen(raw) <= ReasonMax

(* ---------------- authentication / authorization ---------------- *)
(* a user document as the handlers see it, and the null of a failed lookup *)
NullUser == [null |-> TRUE]

UserDoc(u) == [id |-> u, role |-> users[u].role, isActive |-> users[u].isActive]

findUserById(u) == IF u \in DOMAIN users THEN UserDoc(u) ELSE NullUser

(* a token is null, the empty string, or a JWT <<subject, state>> whose    *)
(* state says what jwt.verify makes of it                                  *)
NullToken == << >>
EmptyToken == <<"">>
TokenStates == {"valid", "expired", "forged"}
Jwt(u, state) == <<u, state>>

(* the Authorization header: absent, of another scheme, or Bearer <token>  *)
NoHeader == [scheme |-> "none", token |-> NullToken]
Bearer(tok) == [scheme |-> "Bearer", token |-> tok]

(* the header a principal of the routes sends: a valid token of its own    *)
HeaderOf(by) == IF by = NoToken THEN NoHeader ELSE Bearer(Jwt(by, "valid"))

extractTokenFromHeader(h) ==
    IF h.scheme # "Bearer" THEN NullToken ELSE h.token

Thrown == "Invalid or expired token"

verifyToken(tok) ==
    IF Len(tok) = 2 /\ tok[2] = "valid" THEN tok[1] ELSE Thrown

(* a look-up that does not ask whether the account is active *)
getCurrentUser_anyAccount(tok) ==
    LET decoded == verifyToken(tok)
    IN  IF decoded = Thrown THEN NullUser ELSE findUserById(decoded)

getCurrentUser(tok) ==
    LET decoded == verifyToken(tok)
    IN  IF decoded = Thrown THEN NullUser
        ELSE LET user == findUserById(decoded)
             IN  IF user = NullUser \/ ~user.isActive THEN NullUser ELSE user

(* required roles: one role, or an array of roles *)
OneRole(r) == [array |-> FALSE, value |-> r]
RoleArray(rs) == [array |-> TRUE, items |-> rs]

(* a role check that only asks for a role *)
hasRole_anyRole(user, requiredRoles) ==
    ~(user = NullUser \/ "role" \notin DOMAIN user \/ user.role = "")

hasRole(user, requiredRoles) ==
    IF user = NullUser \/ "role" \notin DOMAIN user \/ user.role = ""
    THEN FALSE
    ELSE LET roles == IF requiredRoles.array THEN requiredRoles.items
                      ELSE {requiredRoles.value}
         IN  user.role \in roles

(* the user authenticate puts in req.user, NullUser when it answers 401 *)
reqUser(by) ==
    LET token == extractTokenFromHeader(HeaderOf(by))
    IN  IF token \in {NullToken, EmptyToken} THEN NullUser
        ELSE getCurrentUser(token)

authenticate(by) == reqUser(by) # NullUser

(* authorize(...roles) hands the rest parameter, an array, to hasRole *)
authorize(by, roles) == hasRole(reqUser(by), RoleArray(roles))

(* ---------------- the Post document ---------------- *)
Fields == {"author", "title", "slug", "status", "isPublished", "publishedAt",
           "isApproved", "approvedBy", "approvedAt", "rejectionReason",
           "submittedForApproval", "submittedAt", "viewCount"}

newPost(author, title, slug, status) ==
    [author |-> author, title |-> title, slug |-> slug, status |-> status,
     isPublished |-> FALSE, publishedAt |-> NullDate,
     isApproved |-> FALSE, approvedBy |-> NullRef, approvedAt |-> NullDate,
     rejectionReason |-> NullStr,
     submittedForApproval |-> FALSE, submittedAt |-> NullDate,
     viewCount |-> 0]

preSave(d, t) ==
    LET d1 == IF d.status = "published" /\ d.publishedAt = NullDate
              THEN [d EXCEPT !.publishedAt = t, !.isPublished = TRUE]
              ELSE d
        d2 == IF d1.status = "pending" /\ ~d1.submittedForApproval
              THEN [d1 EXCEPT !.submittedForApproval = TRUE, !.submittedAt = t]
              ELSE d1
    IN  IF d2.status = "published" /\ ~d2.isApproved
        THEN [d2 EXCEPT !.isApproved = TRUE]
        ELSE d2

submitForApproval(d, t) ==
    [d EXCEPT !.status = "pending", !.submittedForApproval = TRUE,
              !.submittedAt = t]

(* approve that keeps an earlier rejection reason *)
approve_noClear(d, adminId, t) ==
    [d EXCEPT !.status = "published", !.isApproved = TRUE,
              !.approvedBy = adminId, !.approvedAt = t, !.publishedAt = t,
              !.isPublished = TRUE]

approve(d, adminId, t) ==
    [d EXCEPT !.status = "published", !.isApproved = TRUE,
              !.approvedBy = adminId, !.approvedAt = t, !.publishedAt = t,
              !.isPublished = TRUE, !.rejectionReason = NullStr]

(* reject that leaves the status alone *)
reject_keepStatus(d, adminId, reason, t) ==
    [d EXCEPT !.isApproved = FALSE,
              !.approvedBy = adminId, !.approvedAt = t,
              !.rejectionReason = reason]

reject(d, adminId, reason, t) ==
    [d EXCEPT !.status = "rejected", !.isApproved = FALSE,
              !.approvedBy = adminId, !.approvedAt = t,
              !.rejectionReason = reason]

incrementViewCount(d) == [d EXCEPT !.viewCount = @ + 1]

(* save(): the paths of the in-memory document, after the pre-save hook,   *)
(* whose value differs from the value read.                                *)
modifiedPaths(snap, mem) == {f \in Fields : mem[f] # snap[f]}

delta(snap, mem) == [f \in modifiedPaths(snap, mem) |-> mem[f]]

applyUpdate(d, patch) ==
    [f \in Fields |-> IF f \in DOMAIN patch THEN patch[f] ELSE d[f]]

findBySlug(slug) == {i \in DOMAIN posts : posts[i].slug = slug}

(* a store without the unique index on slug *)
uniqueSlug_off(slug, self) == TRUE

(* slug: { unique: true }: a write of slug to document self is accepted    *)
(* when no other document holds that slug                                  *)
uniqueSlug(slug, self) == \A i \in DOMAIN posts \ {self} : posts[i].slug # slug

(* ---------------- requests ---------------- *)
Titles == {"t1"}
Slugs == {"s1"}
CreateStatuses == {Undefined, "draft", "published", "archived", "pending"}
UpdateStatuses == {"draft", "published", "archived", "pending"}

(* reasons sent to /reject: absent, too short, the shortest valid one,     *)
(* too long, and reasons padded with whitespace                            *)
Reasons == {NullStr, <<0, 9, 0>>, <<0, 10, 0>>, <<0, 501, 0>>,
            <<1, 9, 0>>, <<1, 500, 0>>}

(* bodies sent to PUT /posts/:id: one path each *)
Bodies == {("title" :> t) : t \in Titles}
          \cup {("status" :> st) : st \in UpdateStatuses}
          \cup {("author" :> "m1")}

NoResponse == [op |-> "none", code |-> 0, seen |-> "none"]

(* a handler runs to its next await while no response is on its way out *)
Running == resp = NoResponse

(* requests between their read of the store and their write, as a bag;    *)
(* a request keeps what its write uses: the document or the paths to       *)
(* write, and for approve and reject the admin and the reason as sent      *)
CanBegin == Running /\ BagCardinality(reqs) \in InFlight

Request(op, by, id, patch, raw) ==
    [op |-> op, by |-> by, id |-> id, patch |-> patch, raw |-> raw,
     stale |-> FALSE]

Pending(r) == Running /\ BagIn(r, reqs)

Await(r) == reqs' = reqs (+) SetToBag({r})

Touch(id, B) ==
    BagOfAll(LAMBDA x : IF x.id = id THEN [x EXCEPT !.stale = TRUE] ELSE x, B)

(* the request is answered without a write *)
Done(r) == reqs' = reqs (-) SetToBag({r})

(* the request is answered after its write to post r.id *)
Wrote(r) == reqs' = Touch(r.id, reqs (-) SetToBag({r}))

(* the latest response: the route, the status code, and for GET           *)
(* /posts/:id the status of the post in the body                           *)
Respond(op, code) == resp' = [op |-> op, code |-> code, seen |-> "none"]

Show(status) == resp' = [op |-> "get", code |-> 200, seen |-> status]

(* the users of the routes: one of each role, all active *)
InitUsers == [u \in Users |-> [role |-> Role[u], isActive |-> TRUE]]

NoCall == [fn |-> "none"]

(* what the handlers of the posts router leave alone *)
aside == <<users, now, call>>

Init ==
    /\ posts = << >>
    /\ nextId = 1
    /\ reqs = EmptyBag
    /\ resp = NoResponse
    /\ users = InitUsers
    /\ now = 0
    /\ call = NoCall

(* res.json(): the response leaves; resp shows it until then *)
Deliver ==
    /\ resp # NoResponse
    /\ resp' = NoResponse
    /\ UNCHANGED <<posts, nextId, reqs, aside>>

(* POST /posts, up to the await of post.save() *)
CreateBegin(by, title, slug, st) ==
    /\ CanBegin
    /\ IF ~authenticate(by)
       THEN Respond("create", 401) /\ UNCHANGED <<nextId, reqs>>
       ELSE IF st \notin {Undefined, "draft", "published", "archived"}
       THEN Respond("create", 400) /\ UNCHANGED <<nextId, reqs>>
       ELSE IF findBySlug(slug) # {}
       THEN Respond("create", 400) /\ UNCHANGED <<nextId, reqs>>
       ELSE /\ LET status == IF st = Undefined THEN "draft" ELSE st
                   doc == preSave(newPost(by, title, slug, status), newDate)
               IN  Await(Request("create", NullRef, nextId, doc, NullStr))
            /\ nextId' = nextId + 1
            /\ UNCHANGED resp
    /\ UNCHANGED <<posts, aside>>

(* post.save() of a new document: the unique index on slug decides *)
CreateSave(r) ==
    /\ Pending(r)
    /\ r.op = "create"
    /\ IF ~uniqueSlug(r.patch.slug, r.id)
       THEN Respond("create", 400) /\ UNCHANGED posts
       ELSE posts' = (r.id :> r.patch) @@ posts /\ Respond("create", 201)
    /\ Done(r)
    /\ UNCHANGED <<nextId, aside>>

(* a submit guard that lets a rejected post be resubmitted *)
submitAllowed_orRejected(d) == d.status \in {"draft", "rejected"}

submitAllowed(d) == d.status = "draft"

(* approve guards that let more than pending posts through *)
approveAllowed_unpublished(d) == d.status # "published"

approveAllowed_orRejected(d) == d.status \in {"pending", "rejected"}

approveAllowed(d) == d.status = "pending"

rejectAllowed(d) == d.status = "pending"

(* POST /posts/:id/submit, up to the await of post.submitForApproval() *)
SubmitBegin(by, id) ==
    /\ CanBegin
    /\ IF ~authenticate(by)
       THEN Respond("submit", 401) /\ UNCHANGED reqs
       ELSE IF id \notin DOMAIN posts
       THEN Respond("submit", 404) /\ UNCHANGED reqs
       ELSE IF posts[id].author # by
       THEN Respond("submit", 403) /\ UNCHANGED reqs
       ELSE IF ~submitAllowed(posts[id])
       THEN Respond("submit", 400) /\ UNCHANGED reqs
       ELSE LET mem == preSave(submitForApproval(posts[id], newDate), newDate)
            IN  Await(Request("submit", NullRef, id, delta(posts[id], mem),
                              NullStr))
                /\ UNCHANGED resp
    /\ UNCHANGED <<posts, nextId, aside>>

(* POST /posts/:id/approve, up to the await of post.approve() *)
ApproveBegin(by, id) ==
    /\ CanBegin
    /\ IF ~authenticate(by)
       THEN Respond("approve", 401) /\ UNCHANGED reqs
       ELSE IF ~authorize(by, {"admin"})
       THEN Respond("approve", 403) /\ UNCHANGED reqs
       ELSE IF id \notin DOMAIN posts
       THEN Respond("approve", 404) /\ UNCHANGED reqs
       ELSE IF ~approveAllowed(posts[id])
       THEN Respond("approve", 400) /\ UNCHANGED reqs
       ELSE LET mem == preSave(approve(posts[id], by, newDate), newDate)
            IN  Await(Request("approve", by, id, delta(posts[id], mem),
                              NullStr))
                /\ UNCHANGED resp
    /\ UNCHANGED <<posts, nextId, aside>>

(* POST /posts/:id/reject, up to the await of post.reject() *)
RejectBegin(by, id, raw) ==
    /\ CanBegin
    /\ IF ~authenticate(by)
       THEN Respond("reject", 401) /\ UNCHANGED reqs
       ELSE IF ~authorize(by, {"admin"})
       THEN Respond("reject", 403) /\ UNCHANGED reqs
       ELSE IF ~reasonIsLength(raw)
       THEN Respond("reject", 400) /\ UNCHANGED reqs
       ELSE IF id \notin DOMAIN posts
       THEN Respond("reject", 404) /\ UNCHANGED reqs
       ELSE IF ~rejectAllowed(posts[id])
       THEN Respond("reject", 400) /\ UNCHANGED reqs
       ELSE LET mem == preSave(reject(posts[id], by, trim(raw), newDate), newDate)
            IN  Await(Request("reject", by, id, delta(posts[id], mem), raw))
                /\ UNCHANGED resp
    /\ UNCHANGED <<posts, nextId, aside>>

(* GET /posts/:id, up to the await of post.incrementViewCount() *)
GetBegin(id) ==
    /\ CanBegin
    /\ IF id \notin DOMAIN posts
       THEN Respond("get", 404) /\ UNCHANGED reqs
       ELSE IF posts[id].status # "published"
       THEN Show(posts[id].status) /\ UNCHANGED reqs
       ELSE /\ posts[id].viewCount < MaxViews
            /\ LET mem == preSave(incrementViewCount(posts[id]), newDate)
               IN  Await(Request("get", NullRef, id, delta(posts[id], mem),
                                 NullStr))
            /\ UNCHANGED resp
    /\ UNCHANGED <<posts, nextId, aside>>

SaveOps == {"submit", "approve", "reject", "get"}

(* save() of a document that was read: $set of the modified paths; a       *)
(* document that is gone by now makes save() throw, which errorHandler     *)
(* answers with 500                                                        *)
Save(r) ==
    /\ Pending(r)
    /\ r.op \in SaveOps
    /\ IF r.id \notin DOMAIN posts
       THEN Respond(r.op, 500) /\ UNCHANGED posts /\ Done(r)
       ELSE /\ posts' = [posts EXCEPT ![r.id] = applyUpdate(@, r.patch)]
            /\ IF r.op = "get" THEN Show("published") ELSE Respond(r.op, 200)
            /\ Wrote(r)
    /\ UNCHANGED <<nextId, aside>>

(* an ownership check that lets moderators through *)
isAuthorOrAdmin_orModerator(by, d) ==
    d.author = by \/ reqUser(by).role \in {"admin", "moderator"}

isAuthorOrAdmin(by, d) == d.author = by \/ reqUser(by).role = "admin"

(* PUT /posts/:id, up to the await of Post.findByIdAndUpdate() *)
PutBegin(by, id, body) ==
    /\ CanBegin
    /\ IF ~authenticate(by)
       THEN Respond("put", 401) /\ UNCHANGED reqs
       ELSE IF "status" \in DOMAIN body
               /\ body["status"] \notin {"draft", "published", "archived"}
       THEN Respond("put", 400) /\ UNCHANGED reqs
       ELSE IF id \notin DOMAIN posts
       THEN Respond("put", 404) /\ UNCHANGED reqs
       ELSE IF ~isAuthorOrAdmin(by, posts[id])
       THEN Respond("put", 403) /\ UNCHANGED reqs
       ELSE Await(Request("put", NullRef, id, body, NullStr))
            /\ UNCHANGED resp
    /\ UNCHANGED <<posts, nextId, aside>>

(* Post.findByIdAndUpdate(id, req.body): no save hook; a missing document  *)
(* yields a null post in a 200 response; a slug held by another post       *)
(* violates the unique index                                               *)
PutUpdate(r) ==
    /\ Pending(r)
    /\ r.op = "put"
    /\ IF r.id \notin DOMAIN posts
       THEN Respond("put", 200) /\ UNCHANGED posts /\ Done(r)
       ELSE IF "slug" \in DOMAIN r.patch
               /\ ~uniqueSlug(r.patch["slug"], r.id)
       THEN Respond("put", 400) /\ UNCHANGED posts /\ Done(r)
       ELSE posts' = [posts EXCEPT ![r.id] = applyUpdate(@, r.patch)]
            /\ Respond("put", 200) /\ Wrote(r)
    /\ UNCHANGED <<nextId, aside>>

(* DELETE /posts/:id, up to the await of Post.findByIdAndDelete() *)
DeleteBegin(by, id) ==
    /\ CanBegin
    /\ IF ~authenticate(by)
       THEN Respond("delete", 401) /\ UNCHANGED reqs
       ELSE IF id \notin DOMAIN posts
       THEN Respond("delete", 404) /\ UNCHANGED reqs
       ELSE IF ~isAuthorOrAdmin(by, posts[id])
       THEN Respond("delete", 403) /\ UNCHANGED reqs
       ELSE Await(Request("delete", NullRef, id, << >>, NullStr))
            /\ UNCHANGED resp
    /\ UNCHANGED <<posts, nextId, aside>>

DeleteCommit(r) ==
    /\ Pending(r)
    /\ r.op = "delete"
    /\ posts' = [i \in DOMAIN posts \ {r.id} |-> posts[i]]
    /\ Respond("delete", 200)
    /\ Wrote(r)
    /\ UNCHANGED <<nextId, aside>>

Next ==
    \/ Deliver
    \/ \E by \in Principals, t \in Titles, sl \in Slugs,
          st \in CreateStatuses :
          nextId \in PostIds /\ CreateBegin(by, t, sl, st)
    \/ \E r \in BagToSet(reqs) : CreateSave(r)
    \/ \E by \in Principals, id \in PostIds : SubmitBegin(by, id)
    \/ \E by \in Principals, id \in PostIds : ApproveBegin(by, id)
    \/ \E by \in Principals, id \in PostIds, raw \in Reasons :
          RejectBegin(by, id, raw)
    \/ \E id \in PostIds : GetBegin(id)
    \/ \E r \in BagToSet(reqs) : Save(r)
    \/ \E by \in Principals, id \in PostIds, body \in Bodies :
          PutBegin(by, id, body)
    \/ \E r \in BagToSet(reqs) : PutUpdate(r)
    \/ \E by \in Principals, id \in PostIds : DeleteBegin(by, id)
    \/ \E r \in BagToSet(reqs) : DeleteCommit(r)

Spec == Init /\ [][Next]_vars

(* ---------------- slugs: POST /posts and PUT /posts/:id ---------------- *)
SlugPostIds == 1..MaxPosts
SlugAuthors == {"u1", "a1"}
SlugValues == {"s1", "s2"}
SlugBodies == {("slug" :> sl) : sl \in SlugValues}

SlugNext ==
    \/ Deliver
    \/ \E by \in SlugAuthors, t \in Titles, sl \in SlugValues :
          nextId \in SlugPostIds /\ CreateBegin(by, t, sl, Undefined)
    \/ \E r \in BagToSet(reqs) : CreateSave(r)
    \/ \E by \in SlugAuthors, id \in SlugPostIds, body \in SlugBodies :
          PutBegin(by, id, body)
    \/ \E r \in BagToSet(reqs) : PutUpdate(r)

SlugSpec == Init /\ [][SlugNext]_vars

(* ---------------- the client form: CreatePost.jsx ---------------- *)
(* a title is a sequence of characters, one of each kind the derivation    *)
(* tells apart: upper case, lower case, digit, whitespace, hyphen, other   *)
Chars == {"A", "b", "1", " ", "-", "!"}
Whitespace == {" "}
Kept == {"a", "b", "1", " ", "-"}

toLowerCase(s) == [i \in DOMAIN s |-> IF s[i] = "A" THEN "a" ELSE s[i]]

(* replace(/[^a-z0-9\s-]/g, '') *)
IsKept(c) == c \in Kept

removeSpecial(s) == SelectSeq(s, IsKept)

(* replace(/X+/g, '-'): every maximal run of characters of the set X       *)
(* becomes one hyphen                                                      *)
RECURSIVE replaceRuns(_, _)
replaceRuns(s, X) ==
    IF s = << >> THEN << >>
    ELSE IF Head(s) \notin X THEN <<Head(s)>> \o replaceRuns(Tail(s), X)
    ELSE IF Len(s) > 1 /\ s[2] \in X THEN replaceRuns(Tail(s), X)
    ELSE <<"-">> \o replaceRuns(Tail(s), X)

(* String.prototype.trim takes no argument: trim('-') strips whitespace    *)
RECURSIVE trimStart(_)
trimStart(s) ==
    IF s # << >> /\ Head(s) \in Whitespace THEN trimStart(Tail(s)) ELSE s

RECURSIVE trimEnd(_)
trimEnd(s) ==
    IF s # << >> /\ s[Len(s)] \in Whitespace
    THEN trimEnd(SubSeq(s, 1, Len(s) - 1)) ELSE s

strTrim(s) == trimEnd(trimStart(s))

baseSlug(title) ==
    strTrim(replaceRuns(replaceRuns(removeSpecial(toLowerCase(title)),
                                    Whitespace), {"-"}))

(* `${baseSlug}-${timestamp}` *)
formSlug(title, timestamp) == <<baseSlug(title), "-", timestamp>>

RECURSIVE SeqsUpTo(_, _)
SeqsUpTo(S, n) ==
    IF n = 0 THEN {<< >>}
    ELSE LET shorter == SeqsUpTo(S, n - 1)
         IN  shorter \cup {Append(q, c) : q \in shorter, c \in S}

FormTitleInputs == SeqsUpTo(Chars, MaxTitleLen)

(* everything but call is as Init leaves it *)
Idle ==
    /\ posts = << >>
    /\ nextId = 1
    /\ reqs = EmptyBag
    /\ resp = NoResponse
    /\ users = InitUsers
    /\ now = 0

SlugifyInit ==
    /\ Idle
    /\ call \in {[fn |-> "baseSlug", title |-> t, done |-> FALSE,
                   slug |-> << >>] : t \in FormTitleInputs}

DeriveSlug ==
    /\ call.fn = "baseSlug"
    /\ ~call.done
    /\ call' = [call EXCEPT !.done = TRUE, !.slug = baseSlug(call.title)]
    /\ UNCHANGED <<posts, nextId, reqs, resp, users, now>>

SlugifyNext == DeriveSlug

SlugifySpec == SlugifyInit /\ [][SlugifyNext]_vars

(* handleSubmit of two open forms, and the server's POST /posts *)
FormUsers == {"u1", "m1"}
FormTitles == {<<"A", "b", "1">>, <<"b", " ", "b">>}
FormPostIds == 1..MaxPosts

Tick ==
    /\ now < MaxNow
    /\ now' = now + 1
    /\ UNCHANGED <<posts, nextId, reqs, resp, users, call>>

HandleSubmit(by, title) ==
    CreateBegin(by, title, formSlug(title, now), Undefined)

FormNext ==
    \/ Deliver
    \/ Tick
    \/ \E by \in FormUsers, t \in FormTitles :
          nextId \in FormPostIds /\ HandleSubmit(by, t)
    \/ \E r \in BagToSet(reqs) : CreateSave(r)

FormSpec == Init /\ [][FormNext]_vars

(* ---------------- the list endpoints: pagination ---------------- *)
ListRoutes == {"GET /posts", "GET /posts/my-posts", "GET /posts/pending/approval",
               "GET /users", "GET /users/:id/posts"}

(* Math.ceil rounding down *)
ceil_floor(a, b) == a \div b

(* Math.ceil(a / b) *)
ceil(a, b) == IF a % b = 0 THEN a \div b ELSE (a \div b) + 1

(* find(query).sort(sort).skip(skip).limit(limitNum) over the matching     *)
(* records in sort order                                                   *)
skipLimit(records, skip, limitNum) ==
    SubSeq(records, skip + 1,
           IF skip + limitNum < Len(records) THEN skip + limitNum
           ELSE Len(records))

(* the handler of a list endpoint, given the matching records *)
paginate(records, page, limit) ==
    LET skip == (page - 1) * limit
        limitNum == limit
        items == skipLimit(records, skip, limitNum)
        total == Len(records)
        totalPages == ceil(total, limitNum)
    IN  [items |-> items,
         currentPage |-> page,
         totalPages |-> totalPages,
         totalItems |-> total,
         itemsPerPage |-> limitNum,
         hasNextPage |-> page < totalPages,
         hasPrevPage |-> page > 1]

NoPage == [items |-> << >>, currentPage |-> 0, totalPages |-> 0,
           totalItems |-> 0, itemsPerPage |-> 0,
           hasNextPage |-> FALSE, hasPrevPage |-> FALSE]

ListInit ==
    /\ Idle
    /\ call \in {[fn |-> "list", route |-> rt, n |-> n, page |-> pg,
                   limit |-> lm, done |-> FALSE, data |-> NoPage] :
                  rt \in ListRoutes, n \in 0..MaxRecords,
                  pg \in 1..MaxPage, lm \in 1..MaxLimit}

List ==
    /\ call.fn = "list"
    /\ ~call.done
    /\ call' = [call EXCEPT !.done = TRUE,
                            !.data = paginate([i \in 1..call.n |-> i],
                                              call.page, call.limit)]
    /\ UNCHANGED <<posts, nextId, reqs, resp, users, now>>

ListNext == List

ListSpec == ListInit /\ [][ListNext]_vars

(* ---------------- hasRole as a function ---------------- *)
RoleNames == {"user", "admin", "moderator"}

(* principals handed to hasRole: null, an object without role, with an     *)
(* empty role, with a role of the application, with another role           *)
RolePrincipals ==
    {NullUser, [id |-> "x"]}
    \cup {[id |-> "x", role |-> r] : r \in RoleNames \cup {"", "guest"}}

RequiredRoles ==
    {OneRole(r) : r \in RoleNames} \cup {RoleArray(rs) : rs \in SUBSET RoleNames}

RoleInit ==
    /\ Idle
    /\ call \in {[fn |-> "hasRole", user |-> u, requiredRoles |-> rr,
                   done |-> FALSE, result |-> FALSE] :
                  u \in RolePrincipals, rr \in RequiredRoles}

CallHasRole ==
    /\ call.fn = "hasRole"
    /\ ~call.done
    /\ call' = [call EXCEPT !.done = TRUE,
                            !.result = hasRole(call.user, call.requiredRoles)]
    /\ UNCHANGED <<posts, nextId, reqs, resp, users, now>>

RoleNext == CallHasRole

RoleSpec == RoleInit /\ [][RoleNext]_vars

(* ---------------- the middleware chain of a protected route ---------------- *)
AuthAccounts == {"u1", "a1"}

(* the User collection a request meets: each account absent, active or     *)
(* deactivated                                                             *)
AuthUserTables ==
    UNION {[present -> [role : {"x"}, isActive : BOOLEAN]] :
           present \in SUBSET AuthAccounts}

WithRoles(table) ==
    [u \in DOMAIN table |-> [role |-> Role[u], isActive |-> table[u].isActive]]

AuthHeaders ==
    {NoHeader, [scheme |-> "Basic", token |-> Jwt("a1", "valid")],
     Bearer(EmptyToken)}
    \cup {Bearer(Jwt(u, st)) : u \in AuthAccounts, st \in TokenStates}

(* the middleware in front of a handler *)
AuthRoutes == {<<"authenticate">>, <<"authenticate", "authorize">>,
               <<"authorize">>}

AuthRoleLists == {{"admin"}, {"admin", "moderator"}}

AuthInit ==
    /\ posts = << >>
    /\ nextId = 1
    /\ reqs = EmptyBag
    /\ resp = NoResponse
    /\ now = 0
    /\ users \in {WithRoles(t) : t \in AuthUserTables}
    /\ call \in {[fn |-> "chain", header |-> h, route |-> rt, roles |-> rs,
                   step |-> 0, user |-> NullUser, status |-> 0, nexts |-> 0,
                   ran |-> FALSE] :
                  h \in AuthHeaders, rt \in AuthRoutes, rs \in AuthRoleLists}

Current(name) ==
    /\ call.fn = "chain"
    /\ call.status = 0
    /\ call.step < Len(call.route)
    /\ call.route[call.step + 1] = name

Answer(code) == call' = [call EXCEPT !.step = @ + 1, !.status = code]

(* authenticate(req, res, next) *)
Authenticate ==
    /\ Current("authenticate")
    /\ LET token == extractTokenFromHeader(call.header)
       IN  IF token \in {NullToken, EmptyToken}
           THEN Answer(401)
           ELSE LET user == getCurrentUser(token)
                IN  IF user = NullUser
                    THEN Answer(401)
                    ELSE call' = [call EXCEPT !.step = @ + 1, !.user = user,
                                             !.nexts = @ + 1]
    /\ UNCHANGED <<posts, nextId, reqs, resp, users, now>>

(* the middleware authorize(...roles) returns *)
Authorize ==
    /\ Current("authorize")
    /\ IF call.user = NullUser
       THEN Answer(401)
       ELSE IF ~hasRole(call.user, RoleArray(call.roles))
       THEN Answer(403)
       ELSE call' = [call EXCEPT !.step = @ + 1, !.nexts = @ + 1]
    /\ UNCHANGED <<posts, nextId, reqs, resp, users, now>>

(* the route's handler *)
Handler ==
    /\ call.fn = "chain"
    /\ call.status = 0
    /\ call.step = Len(call.route)
    /\ call' = [call EXCEPT !.ran = TRUE, !.status = 200]
    /\ UNCHANGED <<posts, nextId, reqs, resp, users, now>>

AuthNext == Authenticate \/ Authorize \/ Handler

AuthSpec == AuthInit /\ [][AuthNext]_vars

(* ---------------- the users router and the auth router ---------------- *)
(* the accounts that send requests, each with a token issued to it, and    *)
(* the one a registration creates                                          *)
Actors == {"u1", "a1"}
Registrants == {"n1"}
Accounts == Actors \cup Registrants

UsersInit ==
    /\ posts = << >>
    /\ nextId = 1
    /\ reqs = EmptyBag
    /\ resp = NoResponse
    /\ users = [u \in Actors |-> InitUsers[u]]
    /\ now = 0
    /\ call = NoCall

(* a request of these routers in flight: who sent it, the user it is       *)
(* about, and what its next step writes                                    *)
UserRequest(op, by, target, data) ==
    Request(op, by, 0, [target |-> target, data |-> data], NullStr)

(* bodies of PUT /users/:id: a profile only, or role or isActive as well,  *)
(* valid or not                                                            *)
UserBodies ==
    {[role |-> r, isActive |-> Undefined] : r \in {Undefined, "user", "admin", "root"}}
    \cup {[role |-> Undefined, isActive |-> a] : a \in {"true", "false", "maybe"}}

isBoolean(v) == v \in {"true", "false"}

(* a check of the admin-only fields that overlooks isActive *)
changesAdminFields_roleOnly(body) == body.role # Undefined

(* role || isActive !== undefined *)
changesAdminFields(body) == body.role # Undefined \/ body.isActive # Undefined

(* POST /users/:id/deactivate, up to the await of findByIdAndUpdate *)
DeactivateBegin(by, id) ==
    /\ CanBegin
    /\ IF ~authenticate(by)
       THEN Respond("deactivate", 401) /\ UNCHANGED reqs
       ELSE IF ~authorize(by, {"admin"})
       THEN Respond("deactivate", 403) /\ UNCHANGED reqs
       ELSE IF by = id
       THEN Respond("deactivate", 400) /\ UNCHANGED reqs
       ELSE Await(UserRequest("deactivate", by, id, ("isActive" :> FALSE)))
            /\ UNCHANGED resp
    /\ UNCHANGED <<posts, nextId, users, now, call>>

(* POST /users/:id/activate, up to the await of findByIdAndUpdate *)
ActivateBegin(by, id) ==
    /\ CanBegin
    /\ IF ~authenticate(by)
       THEN Respond("activate", 401) /\ UNCHANGED reqs
       ELSE IF ~authorize(by, {"admin"})
       THEN Respond("activate", 403) /\ UNCHANGED reqs
       ELSE Await(UserRequest("activate", by, id, ("isActive" :> TRUE)))
            /\ UNCHANGED resp
    /\ UNCHANGED <<posts, nextId, users, now, call>>

updateUser(u, data) ==
    [f \in {"role", "isActive"} |-> IF f \in DOMAIN data THEN data[f] ELSE u[f]]

(* User.findByIdAndUpdate(id, { isActive }) and the response *)
SetActive(r) ==
    /\ Pending(r)
    /\ r.op \in {"deactivate", "activate"}
    /\ IF r.patch.target \notin DOMAIN users
       THEN Respond(r.op, 404) /\ UNCHANGED users
       ELSE /\ users' = [users EXCEPT ![r.patch.target] =
                                        updateUser(@, r.patch.data)]
            /\ Respond(r.op, 200)
    /\ Done(r)
    /\ UNCHANGED <<posts, nextId, now, call>>

(* DELETE /users/:id, up to the await of Post.deleteMany *)
UserDeleteBegin(by, id) ==
    /\ CanBegin
    /\ IF ~authenticate(by)
       THEN Respond("userDelete", 401) /\ UNCHANGED reqs
       ELSE IF ~authorize(by, {"admin"})
       THEN Respond("userDelete", 403) /\ UNCHANGED reqs
       ELSE IF by = id
       THEN Respond("userDelete", 400) /\ UNCHANGED reqs
       ELSE IF findUserById(id) = NullUser
       THEN Respond("userDelete", 404) /\ UNCHANGED reqs
       ELSE Await(UserRequest("userDelete", by, id, ("step" :> "deleteMany")))
            /\ UNCHANGED resp
    /\ UNCHANGED <<posts, nextId, users, now, call>>

(* Post.deleteMany({ author: id }) *)
UserDeleteMany(r) ==
    /\ Pending(r)
    /\ r.op = "userDelete"
    /\ r.patch.data.step = "deleteMany"
    /\ posts' = [i \in {j \in DOMAIN posts : posts[j].author # r.patch.target}
                 |-> posts[i]]
    /\ reqs' = (reqs (-) SetToBag({r}))
                (+) SetToBag({[r EXCEPT !.patch.data =
                                         ("step" :> "findByIdAndDelete")]})
    /\ UNCHANGED <<nextId, resp, users, now, call>>

(* User.findByIdAndDelete(id) and the response *)
UserDeleteCommit(r) ==
    /\ Pending(r)
    /\ r.op = "userDelete"
    /\ r.patch.data.step = "findByIdAndDelete"
    /\ users' = [u \in DOMAIN users \ {r.patch.target} |-> users[u]]
    /\ Respond("userDelete", 200)
    /\ Done(r)
    /\ UNCHANGED <<posts, nextId, now, call>>

(* PUT /users/:id, up to the await of User.findByIdAndUpdate *)
UserPutBegin(by, id, body) ==
    /\ CanBegin
    /\ IF ~authenticate(by)
       THEN Respond("userPut", 401) /\ UNCHANGED reqs
       ELSE IF \/ body.role \notin {Undefined} \cup RoleNames
               \/ body.isActive # Undefined /\ ~isBoolean(body.isActive)
       THEN Respond("userPut", 400) /\ UNCHANGED reqs
       ELSE LET isOwnProfile == reqUser(by).id = id
                isAdmin == reqUser(by).role = "admin"
                updateData ==
                    (IF body.role # Undefined /\ isAdmin
                     THEN ("role" :> body.role) ELSE ("profile" :> "merged"))
                    @@ (IF body.isActive # Undefined /\ isAdmin
                        THEN ("isActive" :> (body.isActive = "true"))
                        ELSE ("profile" :> "merged"))
            IN  IF ~isOwnProfile /\ ~isAdmin
                THEN Respond("userPut", 403) /\ UNCHANGED reqs
                ELSE IF changesAdminFields(body) /\ ~isAdmin
                THEN Respond("userPut", 403) /\ UNCHANGED reqs
                ELSE IF findUserById(id) = NullUser
                THEN Respond("userPut", 404) /\ UNCHANGED reqs
                ELSE Await(UserRequest("userPut", by, id, updateData))
                     /\ UNCHANGED resp
    /\ UNCHANGED <<posts, nextId, users, now, call>>

(* User.findByIdAndUpdate(id, updateData); a user deleted meanwhile makes  *)
(* updatedUser null and the handler throw, which errorHandler answers 500  *)
UserPutUpdate(r) ==
    /\ Pending(r)
    /\ r.op = "userPut"
    /\ IF r.patch.target \notin DOMAIN users
       THEN Respond("userPut", 500) /\ UNCHANGED users
       ELSE /\ users' = [users EXCEPT ![r.patch.target] =
                                        updateUser(@, r.patch.data)]
            /\ Respond("userPut", 200)
    /\ Done(r)
    /\ UNCHANGED <<posts, nextId, now, call>>

(* GET /users/:id *)
UserGet(by, id) ==
    /\ CanBegin
    /\ IF ~authenticate(by)
       THEN Respond("userGet", 401)
       ELSE IF reqUser(by).id # id /\ reqUser(by).role # "admin"
       THEN Respond("userGet", 403)
       ELSE IF findUserById(id) = NullUser
       THEN Respond("userGet", 404)
       ELSE Respond("userGet", 200)
    /\ UNCHANGED <<posts, nextId, reqs, users, now, call>>

(* POST /auth/login, up to the await of user.save(); passwordOk is what    *)
(* comparePassword returns                                                 *)
LoginBegin(u, passwordOk) ==
    /\ CanBegin
    /\ LET user == findUserById(u)
       IN  IF user = NullUser
           THEN Respond("login", 401) /\ UNCHANGED reqs
           ELSE IF ~user.isActive
           THEN Respond("login", 401) /\ UNCHANGED reqs
           ELSE IF ~passwordOk
           THEN Respond("login", 401) /\ UNCHANGED reqs
           ELSE Await(UserRequest("login", u, u, ("lastLogin" :> newDate)))
                /\ UNCHANGED resp
    /\ UNCHANGED <<posts, nextId, users, now, call>>

(* user.save() of lastLogin, generateToken and the response with the token *)
LoginSave(r) ==
    /\ Pending(r)
    /\ r.op = "login"
    /\ IF r.patch.target \notin DOMAIN users
       THEN Respond("login", 500)
       ELSE Respond("login", 200)
    /\ Done(r)
    /\ UNCHANGED <<posts, nextId, users, now, call>>

(* PUT /auth/profile, up to the await of user.save() *)
ProfileBegin(by) ==
    /\ CanBegin
    /\ IF ~authenticate(by)
       THEN Respond("profile", 401) /\ UNCHANGED reqs
       ELSE Await(UserRequest("profile", by, by, ("profile" :> "merged")))
            /\ UNCHANGED resp
    /\ UNCHANGED <<posts, nextId, users, now, call>>

(* user.save() of the profile: role and isActive are not modified paths *)
ProfileSave(r) ==
    /\ Pending(r)
    /\ r.op = "profile"
    /\ IF r.patch.target \notin DOMAIN users
       THEN Respond("profile", 500)
       ELSE Respond("profile", 200)
    /\ Done(r)
    /\ UNCHANGED <<posts, nextId, users, now, call>>

(* the User schema's defaults *)
newUser == [role |-> "user", isActive |-> TRUE]

(* POST /auth/register, up to the await of user.save(); the body's role,   *)
(* if any, is not read                                                     *)
RegisterBegin(u, bodyRole) ==
    /\ CanBegin
    /\ IF findUserById(u) # NullUser
       THEN Respond("register", 400) /\ UNCHANGED reqs
       ELSE Await(UserRequest("register", NullRef, u, newUser))
            /\ UNCHANGED resp
    /\ UNCHANGED <<posts, nextId, users, now, call>>

(* user.save() of the new user: username and email are unique *)
RegisterSave(r) ==
    /\ Pending(r)
    /\ r.op = "register"
    /\ IF r.patch.target \in DOMAIN users
       THEN Respond("register", 400) /\ UNCHANGED users
       ELSE /\ users' = (r.patch.target :> r.patch.data) @@ users
            /\ Respond("register", 201)
    /\ Done(r)
    /\ UNCHANGED <<posts, nextId, now, call>>

UsersNext ==
    \/ Deliver
    \/ \E by \in Actors, id \in Actors : DeactivateBegin(by, id)
    \/ \E by \in Actors, id \in Actors : ActivateBegin(by, id)
    \/ \E r \in BagToSet(reqs) : SetActive(r)
    \/ \E by \in Actors, id \in Actors : UserDeleteBegin(by, id)
    \/ \E r \in BagToSet(reqs) : UserDeleteMany(r)
    \/ \E r \in BagToSet(reqs) : UserDeleteCommit(r)
    \/ \E by \in Actors, id \in Actors, body \in UserBodies :
          UserPutBegin(by, id, body)
    \/ \E r \in BagToSet(reqs) : UserPutUpdate(r)
    \/ \E by \in Actors, id \in Actors : UserGet(by, id)
    \/ \E u \in Accounts, ok \in BOOLEAN : LoginBegin(u, ok)
    \/ \E r \in BagToSet(reqs) : LoginSave(r)
    \/ \E by \in Actors : ProfileBegin(by)
    \/ \E r \in BagToSet(reqs) : ProfileSave(r)
    \/ \E u \in Registrants, role \in {Undefined, "admin"} : RegisterBegin(u, role)
    \/ \E r \in BagToSet(reqs) : RegisterSave(r)
    \/ \E by \in Actors, t \in Titles, sl \in Slugs :
          nextId \in PostIds /\ CreateBegin(by, t, sl, Undefined)
    \/ \E r \in BagToSet(reqs) : CreateSave(r)

UsersSpec == UsersInit /\ [][UsersNext]_vars

(* ---------------- validatePasswordStrength ---------------- *)
(* password.length < 8 *)
MinPasswordLength == 8

(* a password is null or a string, and a string is a sequence of           *)
(* characters. RegExp.prototype.test converts its argument to a string, so *)
(* that the four patterns see the characters n, u, l, l when the password  *)
(* is null                                                                 *)
validatePasswordStrength(password) ==
    LET str == IF password.null THEN <<"n", "u", "l", "l">>
               ELSE password.chars
        (* /(?=.*[X])/.test(password) *)
        test(X) == \E i \in DOMAIN str : str[i] \in X
        push(cond, message) == IF cond THEN <<message>> ELSE << >>
        errors ==
            push(password.null \/ password.chars = << >>
                 \/ Len(password.chars) < MinPasswordLength,
                 "Password must be at least 8 characters long")
            \o push(~test({"a", "l", "n", "u"}),
                    "Password must contain at least one lowercase letter")
            \o push(~test({"A"}),
                    "Password must contain at least one uppercase letter")
            \o push(~test({"1"}),
                    "Password must contain at least one number")
            \o push(~test({"@", "$", "!", "%", "*", "?", "&"}),
                    "Password must contain at least one special character (@$!%*?&)")
    IN  [isValid |-> Len(errors) = 0, errors |-> errors]

CallValidatePasswordStrength ==
    /\ call.fn = "validatePasswordStrength"
    /\ ~call.done
    /\ call' = [call EXCEPT !.done = TRUE,
                            !.strength = validatePasswordStrength(call.password)]
    /\ UNCHANGED <<posts, nextId, reqs, resp, users, now>>

(* ---------------- errorHandler ---------------- *)
(* an error is a record of the properties the handler reads: name, code,   *)
(* status, statusCode, message, keyValue and errors; a property the error  *)
(* lacks is "none", 0 or a record with defined FALSE. A message is the     *)
(* sequence of the pieces it is put together from, the empty string being  *)
(* the empty sequence. The checks run in the source's order and each one   *)
(* that matches replaces the error built so far; Object.keys and           *)
(* Object.values throw a TypeError on undefined, and then this handler     *)
(* sends nothing                                                           *)

(* a handler that answers every error without a statusCode of its own 500  *)
errorHandler_plain(err, NODE_ENV) ==
    LET statusCode == IF err.statusCode # 0 THEN err.statusCode ELSE 500
    IN  [sent |-> TRUE, status |-> statusCode, success |-> FALSE,
         message |-> IF err.message # << >> THEN err.message
                     ELSE <<"Internal Server Error">>,
         statusCode |-> statusCode, stack |-> NODE_ENV = "development"]

errorHandler(err, NODE_ENV) ==
    LET ApiError(message, statusCode) ==
            [message |-> message, statusCode |-> statusCode]
        e0 == [message |-> err.message, statusCode |-> err.statusCode]
        e1 == IF err.name = "CastError"
              THEN ApiError(<<"Resource not found">>, 404) ELSE e0
        e2 == IF err.code = "11000"
              THEN ApiError(<<Head(err.keyValue.keys), " already exists">>, 400)
              ELSE e1
        e3 == IF err.name = "ValidationError"
              THEN ApiError(err.errors.messages, 400) ELSE e2
        e4 == IF err.name = "JsonWebTokenError"
              THEN ApiError(<<"Invalid token">>, 401) ELSE e3
        e5 == IF err.name = "TokenExpiredError"
              THEN ApiError(<<"Token expired">>, 401) ELSE e4
        e6 == IF err.code = "LIMIT_FILE_SIZE"
              THEN ApiError(<<"File too large">>, 400) ELSE e5
        e7 == IF err.code = "LIMIT_UNEXPECTED_FILE"
              THEN ApiError(<<"Unexpected file field">>, 400) ELSE e6
        error == IF err.status = 429
                 THEN ApiError(<<"Too many requests, please try again later">>,
                               429)
                 ELSE e7
        statusCode == IF error.statusCode # 0 THEN error.statusCode ELSE 500
        message == IF error.message = << >>
                   THEN <<"Internal Server Error">> ELSE error.message
    IN  IF \/ err.code = "11000" /\ ~err.keyValue.defined
           \/ err.name = "ValidationError" /\ ~err.errors.defined
        THEN [sent |-> FALSE]
        ELSE [sent |-> TRUE, status |-> statusCode, success |-> FALSE,
              message |-> message, statusCode |-> statusCode,
              stack |-> NODE_ENV = "development"]

CallErrorHandler ==
    /\ call.fn = "errorHandler"
    /\ ~call.done
    /\ call' = [call EXCEPT !.done = TRUE,
                            !.res = errorHandler(call.err, call.NODE_ENV)]
    /\ UNCHANGED <<posts, nextId, reqs, resp, users, now>>

(* ---------------- requestUtils.retry ---------------- *)
(* one run of retry(fn, retries, delay): at "calling" the run awaits fn(), *)
(* at "waiting" it awaits requestUtils.delay(delay). The k-th call of fn   *)
(* settles with the value k or with the error k. waits lists the delays    *)
(* the run has slept                                                       *)
RetryCall ==
    /\ call.fn = "retry"
    /\ call.at = "calling"
    /\ \E ok \in BOOLEAN :
          LET k == call.calls + 1
          IN  call' = IF ok
                      THEN [call EXCEPT !.calls = k, !.at = "resolved",
                                        !.value = k]
                      ELSE IF call.retries = 0
                      THEN [call EXCEPT !.calls = k, !.at = "rejected",
                                        !.error = k]
                      ELSE [call EXCEPT !.calls = k, !.at = "waiting",
                                        !.error = k]
    /\ UNCHANGED <<posts, nextId, reqs, resp, users, now>>

(* a run that backs off by a constant delay *)
RetryDelay_constant ==
    /\ call.fn = "retry"
    /\ call.at = "waiting"
    /\ call' = [call EXCEPT !.waits = Append(@, call.delay),
                            !.retries = @ - 1,
                            !.at = "calling"]
    /\ UNCHANGED <<posts, nextId, reqs, resp, users, now>>

(* the timer fires and the run calls retry(fn, retries - 1, delay * 2) *)
RetryDelay ==
    /\ call.fn = "retry"
    /\ call.at = "waiting"
    /\ call' = [call EXCEPT !.waits = Append(@, call.delay),
                            !.retries = @ - 1,
                            !.delay = @ * 2,
                            !.at = "calling"]
    /\ UNCHANGED <<posts, nextId, reqs, resp, users, now>>

(* ---------------- the utilities, each called on its own ---------------- *)
(* the strings tried as passwords: every string of up to MaxPasswordLen    *)
(* characters (one of each kind the rules tell apart, and '#' that no rule *)
(* counts) and each of them written twice over, which takes the longer     *)
(* ones past the minimum length; the errors: every combination of the      *)
(* properties the handler reads, and whether the error is an ApiError; the *)
(* runs of retry: every number of retries up to MaxRetries, the default    *)
(* among them                                                              *)
UtilInit ==
    /\ Idle
    /\ LET short == SeqsUpTo({"a", "A", "1", "!", "#"}, MaxPasswordLen)
           passwords ==
               {[null |-> TRUE, chars |-> << >>]}
               \cup {[null |-> FALSE, chars |-> s] : s \in short}
               \cup {[null |-> FALSE, chars |-> s \o s] : s \in short}
           errors ==
               [api : BOOLEAN,
                name : {"Error", "CastError", "ValidationError",
                        "JsonWebTokenError", "TokenExpiredError"},
                code : {"none", "11000", "LIMIT_FILE_SIZE",
                        "LIMIT_UNEXPECTED_FILE"},
                status : {0, 400, 429},
                statusCode : {0, 400, 403, 503},
                message : {<< >>, <<"boom">>},
                keyValue : {[defined |-> FALSE, keys |-> << >>],
                            [defined |-> TRUE, keys |-> <<"email">>],
                            [defined |-> TRUE,
                             keys |-> <<"slug", "title">>]},
                errors : {[defined |-> FALSE, messages |-> << >>],
                          [defined |-> TRUE,
                           messages |-> <<"Title is required">>]}]
           (* an ApiError is an Error that carries its statusCode, no code *)
           (* and the status 'fail' or 'error'                             *)
           errs == {e \in errors :
                      e.api => /\ e.name = "Error" /\ e.code = "none"
                               /\ e.status = 0 /\ e.statusCode # 0}
       IN  \/ call \in {[fn |-> "validatePasswordStrength", password |-> p,
                         done |-> FALSE,
                         strength |-> [isValid |-> FALSE, errors |-> << >>]] :
                        p \in passwords}
           \/ call \in {[fn |-> "errorHandler", err |-> e, NODE_ENV |-> env,
                         done |-> FALSE, res |-> [sent |-> FALSE]] :
                        e \in errs,
                        env \in {"development", "production", "test",
                                 "undefined"}}
           \/ call \in {[fn |-> "retry", retries0 |-> n, delay0 |-> d,
                         retries |-> n, delay |-> d, at |-> "calling",
                         calls |-> 0, waits |-> << >>, value |-> 0,
                         error |-> 0] :
                        n \in 0..MaxRetries, d \in {1, 1000}}

UtilNext ==
    \/ CallValidatePasswordStrength
    \/ CallErrorHandler
    \/ RetryCall
    \/ RetryDelay

(* a call that can proceed does: fn settles and the timer fires *)
UtilSpec == UtilInit /\ [][UtilNext]_vars /\ WF_vars(UtilNext)

(* ---------------- POST /auth/register and the User collection ---------------- *)
(* here users is the User collection as the sequence of its documents,     *)
(* each with the username and the email it was stored with; names and      *)
(* addresses are one of the strings "A", "a", "b", "c" and "d"             *)
RegisterInit ==
    /\ posts = << >>
    /\ nextId = 1
    /\ reqs = EmptyBag
    /\ resp = NoResponse
    /\ users = <<[username |-> <<"b">>, email |-> <<"b">>,
                  role |-> "admin", isActive |-> TRUE]>>
    /\ now = 0
    /\ call = NoCall

(* POST /auth/register, up to the await of user.save(): the validators,    *)
(* the password's strength, and the lookup of the lowercased email and     *)
(* username                                                                *)
Register(username, email, password) ==
    /\ CanBegin
    /\ LET doc == [username |-> toLowerCase(username),
                   email |-> toLowerCase(email),
                   role |-> newUser.role, isActive |-> newUser.isActive]
           existingUser ==
               {i \in DOMAIN users :
                   users[i].email = doc.email
                   \/ users[i].username = doc.username}
       IN  IF ~validatePasswordStrength(password).isValid
           THEN Respond("register", 400) /\ UNCHANGED reqs
           ELSE IF existingUser # {}
           THEN Respond("register", 400) /\ UNCHANGED reqs
           ELSE Await(UserRequest("register", NullRef, "new", doc))
                /\ UNCHANGED resp
    /\ UNCHANGED <<posts, nextId, users, now, call>>

(* a User collection without unique indexes *)
RegisterInsert_noIndex(r) ==
    /\ Pending(r)
    /\ r.op = "register"
    /\ users' = Append(users, r.patch.data)
    /\ resp' = [op |-> "register", code |-> 201, seen |-> "token"]
    /\ Done(r)
    /\ UNCHANGED <<posts, nextId, now, call>>

(* user.save(), generateToken and the response. username and email are    *)
(* unique in the User schema: an insert that repeats one of them fails     *)
(* with a duplicate-key error, which errorHandler answers                  *)
RegisterInsert(r) ==
    /\ Pending(r)
    /\ r.op = "register"
    /\ LET doc == r.patch.data
           taken == {f \in {"email", "username"} :
                       \E i \in DOMAIN users : users[i][f] = doc[f]}
           err == [api |-> FALSE, name |-> "MongoServerError",
                   code |-> "11000", status |-> 0, statusCode |-> 0,
                   message |-> <<"E11000 duplicate key error">>,
                   keyValue |-> [defined |-> TRUE,
                                 keys |-> <<CHOOSE f \in taken : TRUE>>],
                   errors |-> [defined |-> FALSE, messages |-> << >>]]
       IN  IF taken # {}
           THEN /\ resp' = [op |-> "register",
                            code |-> errorHandler(err, "production").status,
                            seen |-> "none"]
                /\ UNCHANGED users
           ELSE /\ users' = Append(users, doc)
                /\ resp' = [op |-> "register", code |-> 201, seen |-> "token"]
    /\ Done(r)
    /\ UNCHANGED <<posts, nextId, now, call>>

RegisterNext ==
    \/ Deliver
    \/ \E username \in {<<"A">>, <<"a">>, <<"b">>, <<"c">>, <<"d">>},
          email \in {<<"A">>, <<"a">>, <<"b">>, <<"c">>, <<"d">>},
          password \in {[null |-> FALSE, chars |-> <<"a", "b", "c">>],
                        [null |-> FALSE,
                         chars |-> <<"a", "A", "1", "!", "a", "A", "1", "!">>]} :
          Len(users) < MaxUsers /\ Register(username, email, password)
    \/ \E r \in BagToSet(reqs) : RegisterInsert(r)

RegisterSpec == RegisterInit /\ [][RegisterNext]_vars

(* ---------------- the client's AuthProvider ---------------- *)
(* call holds the provider: the reducer's state, the token in              *)
(* localStorage, the status of the ['user','me'] query and the number of   *)
(* logouts so far; reqs holds the requests the client has in flight, each  *)
(* with the Authorization header and the number of logouts it was sent     *)
(* after. null is "null", the user object "u", the stored token of an      *)
(* earlier session "t0" and a token the server issues "t1"                 *)
authReducer(state, action) ==
    CASE action.type = "SET_LOADING" ->
            [state EXCEPT !.isLoading = action.payload]
      [] action.type = "SET_USER" ->
            [state EXCEPT !.user = action.payload,
                          !.isAuthenticated = action.payload # "null",
                          !.isLoading = FALSE, !.error = "null"]
      [] action.type = "SET_TOKEN" ->
            [state EXCEPT !.token = action.payload,
                          !.isAuthenticated = action.payload # "null"]
      [] action.type = "SET_ERROR" ->
            [state EXCEPT !.error = action.payload, !.isLoading = FALSE]
      [] action.type = "LOGOUT" ->
            [state EXCEPT !.user = "null", !.token = "null",
                          !.isAuthenticated = FALSE, !.isLoading = FALSE,
                          !.error = "null"]
      [] action.type = "CLEAR_ERROR" -> [state EXCEPT !.error = "null"]
      [] OTHER -> state

(* logout(): localStorage.removeItem, LOGOUT, queryClient.clear(). clear() *)
(* of react-query 3 removes the queries and the mutations and cancels      *)
(* those in flight: a cancelled query notifies nobody, a cancelled         *)
(* mutation rejects, and the onError of a login or register in flight      *)
(* dispatches SET_ERROR. c is the provider, B the requests in flight       *)
logout(c, B) ==
    LET out == authReducer(c.state, [type |-> "LOGOUT"])
        cancelled == \E r \in BagToSet(B) : r.op \in {"login", "register"}
    IN  [c EXCEPT !.localStorage = "null",
                  !.state = IF cancelled
                            THEN authReducer(out, [type |-> "SET_ERROR",
                                                   payload |-> "failed"])
                            ELSE out,
                  !.query = "none",
                  !.logouts = @ + 1]

(* initialState and the first render: the query is enabled, and fetches,   *)
(* when localStorage holds a token                                         *)
ClientInit ==
    /\ posts = << >>
    /\ nextId = 1
    /\ resp = NoResponse
    /\ users = InitUsers
    /\ now = 0
    /\ \E token \in {"null", "t0"} :
          /\ call = [fn |-> "AuthProvider",
                     state |-> [user |-> "null", token |-> token,
                                isAuthenticated |-> FALSE,
                                isLoading |-> TRUE, error |-> "null"],
                     localStorage |-> token,
                     query |-> IF token = "null" THEN "none" ELSE "fetching",
                     logouts |-> 0]
          /\ reqs = IF token = "null" THEN EmptyBag
                    ELSE SetToBag({[op |-> "me", token |-> token, sent |-> 0]})

(* login(credentials), register(userData) and updateProfile(profileData):  *)
(* the first two dispatch SET_LOADING, and each starts its mutation        *)
Mutate(op) ==
    /\ BagCardinality(reqs) < MaxClientRequests
    /\ call' = IF op \in {"login", "register"}
               THEN [call EXCEPT !.state =
                        authReducer(@, [type |-> "SET_LOADING",
                                        payload |-> TRUE])]
               ELSE call
    /\ reqs' = reqs (+) SetToBag({[op |-> op, token |-> call.state.token,
                                   sent |-> call.logouts]})
    /\ UNCHANGED <<posts, nextId, resp, users, now>>

(* a mutation settles: onSuccess or onError of the three mutations. The    *)
(* server answers a profile update without a token 401. A token arriving   *)
(* where there was none enables the query, which fetches; after a profile  *)
(* update invalidateQueries refetches the query unless it is fetching      *)
MutationSettle(r, ok) ==
    /\ BagIn(r, reqs)
    /\ r.op \in {"login", "register", "profile"}
    /\ r.op = "profile" /\ ok => r.token # "null"
    /\ LET me == [op |-> "me", token |-> "t1", sent |-> call.logouts]
           fetch == IF r.op = "profile"
                    THEN call.state.token # "null" /\ call.query # "fetching"
                    ELSE call.state.token = "null"
           st == IF r.op = "profile"
                 THEN authReducer(call.state, [type |-> "SET_USER",
                                               payload |-> "u"])
                 ELSE authReducer(
                          authReducer(call.state, [type |-> "SET_TOKEN",
                                                   payload |-> "t1"]),
                          [type |-> "SET_USER", payload |-> "u"])
       IN  IF ok
           THEN /\ call' = [call EXCEPT
                              !.state = st,
                              !.localStorage =
                                  IF r.op = "profile" THEN @ ELSE "t1",
                              !.query = IF fetch THEN "fetching" ELSE @]
                /\ reqs' = IF fetch
                           THEN (reqs (-) SetToBag({r}))
                                (+) SetToBag({[me EXCEPT
                                                 !.token = st.token]})
                           ELSE reqs (-) SetToBag({r})
           ELSE /\ call' = IF r.op = "profile" THEN call
                           ELSE [call EXCEPT !.state =
                                    authReducer(@, [type |-> "SET_ERROR",
                                                    payload |-> "failed"])]
                /\ reqs' = reqs (-) SetToBag({r})
    /\ UNCHANGED <<posts, nextId, resp, users, now>>

(* GET /auth/me settles (retry: false): onSuccess dispatches SET_USER,     *)
(* onError logs out on status 401 and only logs any other error            *)
MeSettle(r, status) ==
    /\ BagIn(r, reqs)
    /\ r.op = "me"
    /\ IF status = 200
       THEN /\ call' = [call EXCEPT
                          !.state = authReducer(@, [type |-> "SET_USER",
                                                    payload |-> "u"]),
                          !.query = "success"]
            /\ reqs' = reqs (-) SetToBag({r})
       ELSE IF status = 401
       THEN /\ call' = logout(call, reqs (-) SetToBag({r}))
            /\ reqs' = EmptyBag
       ELSE /\ call' = [call EXCEPT !.query = "error"]
            /\ reqs' = reqs (-) SetToBag({r})
    /\ UNCHANGED <<posts, nextId, resp, users, now>>

(* a logout whose queryClient.clear() leaves the requests in flight alone *)
Logout_noCancel ==
    /\ call.logouts < MaxLogouts
    /\ call' = [call EXCEPT
                  !.localStorage = "null",
                  !.state = authReducer(@, [type |-> "LOGOUT"]),
                  !.query = "none",
                  !.logouts = @ + 1]
    /\ UNCHANGED <<posts, nextId, reqs, resp, users, now>>

(* the user calls logout() *)
Logout ==
    /\ call.logouts < MaxLogouts
    /\ call' = logout(call, reqs)
    /\ reqs' = EmptyBag
    /\ UNCHANGED <<posts, nextId, resp, users, now>>

ClientNext ==
    \/ \E op \in {"login", "register", "profile"} : Mutate(op)
    \/ \E r \in BagToSet(reqs), ok \in BOOLEAN : MutationSettle(r, ok)
    \/ \E r \in BagToSet(reqs), status \in {200, 401, 500} :
          (status = 401 => call.logouts < MaxLogouts) /\ MeSettle(r, status)
    \/ Logout

(* every request in flight settles; the user need not do anything *)
ClientSpec ==
    /\ ClientInit
    /\ [][ClientNext]_vars
    /\ \A r \in [op : {"me", "login", "register", "profile"},
                  token : {"null", "t0", "t1"}, sent : 0..MaxLogouts] :
          WF_vars(\/ \E ok \in BOOLEAN : MutationSettle(r, ok)
                  \/ \E status \in {200, 401, 500} :
                        /\ status = 401 => call.logouts < MaxLogouts
                        /\ MeSettle(r, status))

(* ---------------- properties ---------------- *)
Untouched == posts' = posts /\ reqs' = reqs

Answered(op, code) == resp' = [op |-> op, code |-> code, seen |-> "none"]

LegalTransitions == {<<"draft", "pending">>, <<"pending", "published">>,
                     <<"pending", "rejected">>, <<"published", "archived">>}

(* C1: a post is created as draft and its status only moves along          *)
(* draft->pending, pending->published, pending->rejected and               *)
(* published->archived.                                                    *)
C1_StatusTransitions ==
    [][\A i \in DOMAIN posts' :
          IF i \in DOMAIN posts
          THEN \/ posts'[i].status = posts[i].status
               \/ <<posts[i].status, posts'[i].status>> \in LegalTransitions
          ELSE posts'[i].status = "draft"]_vars

(* C2: a submit by the author of a post that is not a draft is answered    *)
(* 400 and writes nothing.                                                 *)
C2_SubmitNonDraft ==
    [][\A by \in Users, id \in PostIds :
          (/\ id \in DOMAIN posts
           /\ posts[id].author = by
           /\ posts[id].status # "draft"
           /\ SubmitBegin(by, id))
          => Answered("submit", 400) /\ Untouched]_vars

C2_Witness ==
    /\ resp.op = "submit" /\ resp.code = 400
    /\ \E i \in DOMAIN posts :
          posts[i].status \in {"pending", "published", "rejected", "archived"}

(* C3: an approve by an admin of a post that is not pending is answered    *)
(* 400 and writes nothing.                                                 *)
C3_ApproveNonPending ==
    [][\A by \in Users, id \in PostIds :
          (/\ Role[by] = "admin"
           /\ id \in DOMAIN posts
           /\ posts[id].status # "pending"
           /\ ApproveBegin(by, id))
          => Answered("approve", 400) /\ Untouched]_vars

C3_Witness ==
    /\ resp.op = "approve" /\ resp.code = 400
    /\ \E i \in DOMAIN posts :
          posts[i].status \in {"draft", "published", "rejected", "archived"}

Approved(d, adminId) ==
    /\ d.status = "published"
    /\ d.isApproved
    /\ d.isPublished
    /\ d.publishedAt # NullDate
    /\ d.approvedAt # NullDate
    /\ d.approvedBy = adminId
    /\ d.rejectionReason = NullStr

(* C4 as stated: when the save of an approve lands, the stored post is     *)
(* published, approved by that admin, dated, and has no rejection reason.  *)
C4_ApproveResult ==
    [][\A r \in BagToSet(reqs) :
          (r.op = "approve" /\ r.id \in DOMAIN posts /\ Save(r))
          => Approved(posts'[r.id], r.by)]_vars

(* C4 as amended: the same, for an approve whose post no other request     *)
(* wrote between the approve's read and its save.                          *)
C4_ApproveResultUnraced ==
    [][\A r \in BagToSet(reqs) :
          (r.op = "approve" /\ ~r.stale /\ Save(r))
          => r.id \in DOMAIN posts' /\ Approved(posts'[r.id], r.by)]_vars

C4_Witness ==
    /\ resp.op = "approve" /\ resp.code = 200
    /\ \E i \in DOMAIN posts : Approved(posts[i], "a1")

(* C5: a reject by an admin without a reason, or with one shorter than 10  *)
(* or longer than 500 characters, is answered 400 and writes nothing,      *)
(* whether or not the post exists and whatever its status.                 *)
C5_RejectValidation ==
    [][\A by \in Users, id \in PostIds, raw \in Reasons :
          (/\ Role[by] = "admin"
           /\ (raw = NullStr \/ StrLen(raw) < ReasonMin
                             \/ StrLen(raw) > ReasonMax)
           /\ RejectBegin(by, id, raw))
          => Answered("reject", 400) /\ Untouched]_vars

C5_Witness ==
    /\ resp.op = "reject" /\ resp.code = 400
    /\ DOMAIN posts = {}

(* C6: when the save of a reject lands, the stored post is rejected, not   *)
(* approved, marked with that admin, and its rejection reason is the       *)
(* reason as sent and 10 to 500 characters long.                           *)
C6_RejectResult ==
    [][\A r \in BagToSet(reqs) :
          (r.op = "reject" /\ r.id \in DOMAIN posts /\ Save(r))
          => LET d == posts'[r.id] IN
             /\ d.status = "rejected"
             /\ ~d.isApproved
             /\ d.approvedBy = r.by
             /\ d.rejectionReason = r.raw
             /\ StrLen(d.rejectionReason) >= ReasonMin
             /\ StrLen(d.rejectionReason) <= ReasonMax]_vars

Stranger(by, id) ==
    id \in DOMAIN posts /\ posts[id].author # by /\ Role[by] # "admin"

(* C7 as stated: PUT and DELETE of an existing post by a user who is       *)
(* neither its author nor an admin are answered 403 and write nothing.     *)
C7_StrangerForbidden ==
    [][\A by \in Users, id \in PostIds :
          Stranger(by, id)
          => /\ \A body \in Bodies :
                   PutBegin(by, id, body) => Answered("put", 403) /\ Untouched
             /\ DeleteBegin(by, id) => Answered("delete", 403) /\ Untouched]_vars

InvalidBody(body) ==
    "status" \in DOMAIN body
    /\ body["status"] \notin {"draft", "published", "archived"}

(* C7 as amended: they write nothing; DELETE is answered 403, and PUT is   *)
(* answered 403 when its body passes validation and 400 when it does not.  *)
C7_StrangerRefused ==
    [][\A by \in Users, id \in PostIds :
          Stranger(by, id)
          => /\ \A body \in Bodies :
                   PutBegin(by, id, body)
                   => /\ Answered("put", IF InvalidBody(body) THEN 400 ELSE 403)
                      /\ Untouched
             /\ DeleteBegin(by, id) => Answered("delete", 403) /\ Untouched]_vars

C7_Witness ==
    /\ resp.op = "put" /\ resp.code = 403
    /\ \E i \in DOMAIN posts : posts[i].author = "u1"

(* C8: a submit by anyone but the author of the post, and an approve or a  *)
(* reject by anyone but an admin, are answered 403 and write nothing; the  *)
(* approves and rejects on their way to the store are an admin's.          *)
C8_ActingPrincipal ==
    [][/\ \A by \in Users, id \in PostIds :
             /\ (id \in DOMAIN posts /\ posts[id].author # by
                                     /\ SubmitBegin(by, id))
                => Answered("submit", 403) /\ Untouched
             /\ (Role[by] # "admin" /\ ApproveBegin(by, id))
                => Answered("approve", 403) /\ Untouched
             /\ \A raw \in Reasons :
                   (Role[by] # "admin" /\ RejectBegin(by, id, raw))
                   => Answered("reject", 403) /\ Untouched
       /\ \A r \in BagToSet(reqs') :
             r.op \in {"approve", "reject"} => Role[r.by] = "admin"]_vars

C8_Witness ==
    /\ resp.op = "approve" /\ resp.code = 403
    /\ \E i \in DOMAIN posts : posts[i].status = "pending"

(* C9: a post created without a status is a draft; the save of a submit    *)
(* makes it pending; the save of a reject makes it rejected, with the      *)
(* reason stored when nothing was written in between; an approve that      *)
(* finds it rejected is answered 403 (not an admin) or 400 (an admin) and  *)
(* writes nothing, and a GET that finds it rejected shows rejected.        *)
C9_RejectedScenario ==
    [][/\ \A by \in Users, t \in Titles, sl \in Slugs :
             CreateBegin(by, t, sl, Undefined)
             => \A r \in BagToSet(reqs') :
                   ~BagIn(r, reqs) => r.patch.status = "draft"
       /\ \A r \in BagToSet(reqs) :
             /\ (r.op = "submit" /\ r.id \in DOMAIN posts /\ Save(r))
                => posts'[r.id].status = "pending"
             /\ (r.op = "reject" /\ r.id \in DOMAIN posts /\ Save(r))
                => /\ posts'[r.id].status = "rejected"
                   /\ ~r.stale => posts'[r.id].rejectionReason = trim(r.raw)
       /\ \A id \in PostIds :
             (id \in DOMAIN posts /\ posts[id].status = "rejected")
             => /\ \A by \in Users :
                      ApproveBegin(by, id)
                      => /\ Answered("approve",
                                     IF Role[by] = "admin" THEN 400 ELSE 403)
                         /\ Untouched
                /\ GetBegin(id)
                   => /\ resp' = [op |-> "get", code |-> 200,
                                  seen |-> "rejected"]
                      /\ Untouched]_vars

C9_Witness ==
    /\ resp = [op |-> "get", code |-> 200, seen |-> "rejected"]
    /\ \E i \in DOMAIN posts :
          /\ Role[posts[i].author] = "user"
          /\ posts[i].status = "rejected"
          /\ posts[i].rejectionReason # NullStr

(* C10: the author of a post never changes.                                *)
C10_AuthorImmutable ==
    [][\A i \in DOMAIN posts \cap DOMAIN posts' :
          posts'[i].author = posts[i].author]_vars

(* C11: no two posts ever hold the same slug, whatever the interleaving of  *)
(* POST /posts and PUT /posts/:id; a POST /posts whose slug a post holds,  *)
(* when the handler looks or when its save lands, is answered 400 and      *)
(* creates no post.                                                        *)
C11_SlugUnique ==
    [][/\ \A i, j \in DOMAIN posts' :
             i # j => posts'[i].slug # posts'[j].slug
       /\ \A by \in SlugAuthors, t \in Titles, sl \in SlugValues :
             (findBySlug(sl) # {} /\ CreateBegin(by, t, sl, Undefined))
             => Answered("create", 400) /\ Untouched
       /\ \A r \in BagToSet(reqs) :
             (r.op = "create" /\ findBySlug(r.patch.slug) # {} /\ CreateSave(r))
             => Answered("create", 400) /\ posts' = posts]_vars

(* two creates with one slug both passed the handler's look-up; the save   *)
(* of the second was refused                                               *)
C11_Witness ==
    /\ resp.op = "create" /\ resp.code = 400
    /\ nextId = 3
    /\ Cardinality(DOMAIN posts) = 1

(* C12: every submission of the client form creates its post: no POST      *)
(* /posts sent by the form is refused, so two submissions with one title   *)
(* give two posts, with different slugs.                                   *)
C12_FormAlwaysCreates ==
    [][/\ \A by \in FormUsers, t \in FormTitles :
             HandleSubmit(by, t) => resp' = NoResponse
       /\ \A r \in BagToSet(reqs) :
             (r.op = "create" /\ CreateSave(r)) => Answered("create", 201)]_vars

(* the slug as specified: as derived, with the hyphens at both ends       *)
(* removed                                                                 *)
RECURSIVE stripHyphens(_)
stripHyphens(s) ==
    IF s # << >> /\ Head(s) = "-" THEN stripHyphens(Tail(s))
    ELSE IF s # << >> /\ s[Len(s)] = "-"
    THEN stripHyphens(SubSeq(s, 1, Len(s) - 1))
    ELSE s

(* C13: the base slug of a title is the lowercased title without the       *)
(* characters outside [a-z0-9], whitespace and hyphen, with each run of    *)
(* whitespace and then each run of hyphens made one hyphen, and with no    *)
(* hyphen at either end.                                                   *)
C13_BaseSlug ==
    (call.fn = "baseSlug" /\ call.done)
    => /\ call.slug = stripHyphens(replaceRuns(replaceRuns(
                          removeSpecial(toLowerCase(call.title)),
                          Whitespace), {"-"}))
       /\ call.slug # << >> => Head(call.slug) # "-"
                               /\ call.slug[Len(call.slug)] # "-"

(* C14: a list request for page >= 1 with limit >= 1 over N matching       *)
(* records answers min(limit, max(0, N - (page-1)*limit)) records,         *)
(* totalItems N, totalPages the least number of pages of limit records     *)
(* that hold N, hasNextPage exactly when page < totalPages and hasPrevPage *)
(* exactly when page > 1.                                                  *)
C14_Pagination ==
    (call.fn = "list" /\ call.done)
    => LET rest == call.n - (call.page - 1) * call.limit
           left == IF rest > 0 THEN rest ELSE 0
           d == call.data
       IN  /\ Len(d.items) = IF call.limit < left THEN call.limit ELSE left
           /\ d.totalItems = call.n
           /\ d.totalPages * call.limit >= call.n
           /\ (d.totalPages - 1) * call.limit < call.n
           /\ d.hasNextPage <=> call.page < d.totalPages
           /\ d.hasPrevPage <=> call.page > 1

C14_Witness ==
    /\ call.fn = "list" /\ call.done
    /\ call.page = 2 /\ call.limit = 5 /\ call.n = 12
    /\ Len(call.data.items) = 5
    /\ call.data.totalPages = 3
    /\ call.data.hasNextPage /\ call.data.hasPrevPage

(* C15: hasRole(principal, requiredRoles) returns a boolean; it is true    *)
(* exactly when the principal is not null, has a role that is not empty,   *)
(* and that role is the one required role or one of the array of required  *)
(* roles.                                                                  *)
C15_HasRole ==
    (call.fn = "hasRole" /\ call.done)
    => LET u == call.user
           rr == call.requiredRoles
           withRole == u # NullUser /\ "role" \in DOMAIN u /\ u.role # ""
       IN  /\ call.result \in BOOLEAN
           /\ call.result <=>
                 /\ withRole
                 /\ IF rr.array THEN \E r \in rr.items : r = u.role
                    ELSE rr.value = u.role

C15_Witness ==
    /\ call.fn = "hasRole" /\ call.done
    /\ call.result
    /\ call.requiredRoles.array
    /\ Cardinality(call.requiredRoles.items) = 2

(* the header carries no Bearer token that verifies and names an existing, *)
(* active user                                                             *)
BadCredentials(h) ==
    \/ h.scheme # "Bearer"
    \/ Len(h.token) # 2
    \/ h.token[2] # "valid"
    \/ h.token[1] \notin DOMAIN users
    \/ ~users[h.token[1]].isActive

(* C16: authenticate answers 401 without calling next when the header is   *)
(* missing or not Bearer <token>, the token is invalid or expired, or its  *)
(* user is missing or inactive, and otherwise sets req.user to the token's *)
(* user and calls next once; authorize answers 401 without req.user and    *)
(* 403 when the user's role is not among its roles, and otherwise calls    *)
(* next once; the handler runs only after every middleware called next.    *)
C16_ProtectedRoute ==
    call.fn = "chain"
    => LET h == call.header
           first == call.route[1]
       IN  /\ call.nexts <= call.step
           /\ call.ran => /\ call.nexts = Len(call.route)
                          /\ call.status = 200
           /\ (first = "authenticate" /\ call.step >= 1)
              => IF BadCredentials(h)
                 THEN call.status = 401 /\ call.nexts = 0 /\ ~call.ran
                         /\ call.user = NullUser
                 ELSE call.user = UserDoc(h.token[1]) /\ call.nexts >= 1
           /\ (first = "authorize" /\ call.step >= 1)
              => call.status = 401 /\ call.nexts = 0 /\ ~call.ran
           /\ (first = "authenticate" /\ ~BadCredentials(h) /\ call.step >= 2)
              => IF call.user.role \in call.roles
                 THEN call.nexts = 2 /\ call.status \in {0, 200}
                 ELSE call.nexts = 1 /\ call.status = 403 /\ ~call.ran

C16_Witness ==
    /\ call.fn = "chain"
    /\ call.ran
    /\ call.route = <<"authenticate", "authorize">>
    /\ call.user = [id |-> "a1", role |-> "admin", isActive |-> TRUE]

UsersUntouched == Untouched /\ users' = users

C18_AdminKeepsOwnAccount ==
    [][\A a \in Actors :
          (a \in DOMAIN users /\ users[a].isActive /\ users[a].role = "admin")
          => /\ UserDeleteBegin(a, a)
                => Answered("userDelete", 400) /\ UsersUntouched
             /\ DeactivateBegin(a, a)
                => Answered("deactivate", 400) /\ UsersUntouched
             /\ \A r \in BagToSet(reqs) :
                   (r.by = a /\ (SetActive(r) \/ UserDeleteCommit(r)
                                              \/ UserPutUpdate(r)))
                   => a \in DOMAIN users' /\ users'[a].isActive]_vars

InvalidUserBody(body) ==
    \/ body.role \notin {Undefined} \cup RoleNames
    \/ body.isActive # Undefined /\ ~isBoolean(body.isActive)

NonAdmin(by) == authenticate(by) /\ reqUser(by).role # "admin"

(* what the requests of non-admins, and registration and the profile       *)
(* update, do apart from the answer to a refused PUT                       *)
AdminOnlyChanges ==
    /\ \A by \in Actors, id \in Actors :
          (NonAdmin(by) /\ id # by /\ UserGet(by, id))
          => Answered("userGet", 403) /\ UsersUntouched
    /\ \A r \in BagToSet(reqs') :
          (~BagIn(r, reqs) /\ r.op \in {"userPut", "deactivate", "activate"}
                          /\ DOMAIN r.patch.data \cap {"role", "isActive"} # {})
          => reqUser(r.by).role = "admin"
    /\ \A u \in DOMAIN users \cap DOMAIN users' :
          /\ users'[u].role # users[u].role
             => \E r \in BagToSet(reqs) :
                   /\ r.op = "userPut" /\ r.patch.target = u
                   /\ "role" \in DOMAIN r.patch.data
                   /\ UserPutUpdate(r)
          /\ users'[u].isActive # users[u].isActive
             => \E r \in BagToSet(reqs) :
                   /\ r.op \in {"userPut", "deactivate", "activate"}
                   /\ r.patch.target = u
                   /\ "isActive" \in DOMAIN r.patch.data
                   /\ UserPutUpdate(r) \/ SetActive(r)
    /\ \A u \in DOMAIN users' \ DOMAIN users : users'[u].role = "user"

(* C19 as stated: a PUT /users/:id by a non-admin that carries role or     *)
(* isActive, or is for another user, is answered 403 and writes nothing;   *)
(* so is a GET /users/:id for another user; role and isActive change only  *)
(* by the requests of admins, and a registered user has the default role.  *)
C19_NonAdminForbidden ==
    [][/\ \A by \in Actors, id \in Actors, body \in UserBodies :
             (NonAdmin(by) /\ (id # by \/ body.role # Undefined
                                       \/ body.isActive # Undefined)
                          /\ UserPutBegin(by, id, body))
             => Answered("userPut", 403) /\ UsersUntouched
       /\ AdminOnlyChanges]_vars

(* C19 as amended: the refused PUT is answered 400 when its body does not  *)
(* pass validation and 403 when it does; an admin is a principal whose     *)
(* role was admin when the request was authenticated.                      *)
C19_NonAdminRefused ==
    [][/\ \A by \in Actors, id \in Actors, body \in UserBodies :
             (NonAdmin(by) /\ (id # by \/ body.role # Undefined
                                       \/ body.isActive # Undefined)
                          /\ UserPutBegin(by, id, body))
             => /\ Answered("userPut",
                            IF InvalidUserBody(body) THEN 400 ELSE 403)
                /\ UsersUntouched
       /\ AdminOnlyChanges]_vars

(* a non-admin's PUT on its own id carrying isActive was refused *)
C19_Witness ==
    /\ resp.op = "userPut" /\ resp.code = 403
    /\ \A u \in DOMAIN users : users[u].isActive
    /\ \E u \in DOMAIN users : users[u].role = "user"

(* C20: every post's author is an existing user: when a user is deleted,   *)
(* no post of that user is left, whatever requests of that user are in     *)
(* flight.                                                                 *)
C20_AuthorsExist == \A i \in DOMAIN posts : posts[i].author \in DOMAIN users

(* the rules a password violates, as the messages of the rules: its own    *)
(* characters are counted, and null has none                               *)
ViolatedRules(password) ==
    LET has(X) == \E i \in DOMAIN password.chars : password.chars[i] \in X
    IN  (IF Len(password.chars) < MinPasswordLength
         THEN {"Password must be at least 8 characters long"} ELSE {})
        \cup (IF has({"a"}) THEN {}
              ELSE {"Password must contain at least one lowercase letter"})
        \cup (IF has({"A"}) THEN {}
              ELSE {"Password must contain at least one uppercase letter"})
        \cup (IF has({"1"}) THEN {}
              ELSE {"Password must contain at least one number"})
        \cup (IF has({"!"}) THEN {}
              ELSE {"Password must contain at least one special character (@$!%*?&)"})

(* C21: validatePasswordStrength(password) returns isValid = true with an  *)
(* empty error list exactly when the password has length >= 8 and a        *)
(* lowercase letter, an uppercase letter, a digit and one of @$!%*?&;      *)
(* otherwise the error list holds the message of every violated rule and   *)
(* of no satisfied rule, for every input, the empty string and null too.   *)
C21_PasswordStrength ==
    (call.fn = "validatePasswordStrength" /\ call.done) =>
        /\ call.strength.isValid = (ViolatedRules(call.password) = {})
        /\ call.strength.isValid = (call.strength.errors = << >>)
        /\ {call.strength.errors[i] : i \in DOMAIN call.strength.errors}
              = ViolatedRules(call.password)
        /\ Len(call.strength.errors)
              = Cardinality(ViolatedRules(call.password))

(* what an error is, by the features the handler translates; the last of   *)
(* them in the order of the list decides                                   *)
Translated(err) ==
    IF err.status = 429 THEN <<"rate limit", 429>>
    ELSE IF err.code \in {"LIMIT_FILE_SIZE", "LIMIT_UNEXPECTED_FILE"}
    THEN <<"upload", 400>>
    ELSE IF err.name \in {"JsonWebTokenError", "TokenExpiredError"}
    THEN <<"token", 401>>
    ELSE IF err.name = "ValidationError" THEN <<"validation", 400>>
    ELSE IF err.code = "11000" THEN <<"duplicate key", 400>>
    ELSE IF err.name = "CastError" THEN <<"cast", 404>>
    ELSE <<"other", 0>>

(* the features of an error that the handler's checks look for *)
Features(err) ==
    (IF err.status = 429 THEN {"rate limit"} ELSE {})
    \cup (IF err.code \in {"LIMIT_FILE_SIZE", "LIMIT_UNEXPECTED_FILE"}
          THEN {"upload"} ELSE {})
    \cup (IF err.name \in {"JsonWebTokenError", "TokenExpiredError"}
          THEN {"token"} ELSE {})
    \cup (IF err.name = "ValidationError" THEN {"validation"} ELSE {})
    \cup (IF err.code = "11000" THEN {"duplicate key"} ELSE {})
    \cup (IF err.name = "CastError" THEN {"cast"} ELSE {})

RECURSIVE pow2(_)
pow2(n) == IF n = 0 THEN 1 ELSE 2 * pow2(n - 1)

(* C25: retry(fn, retries, delay) with retries >= 0 always terminates: it  *)
(* calls fn at most retries + 1 times, returns the result of the first     *)
(* successful call without calling fn again, waits delay * 2^(k-1) before  *)
(* the k-th retry, and after retries + 1 failures rejects with the error   *)
(* of the last call.                                                       *)
C25_Retry ==
    /\ [](call.fn = "retry" =>
            /\ call.calls <= call.retries0 + 1
            /\ \A k \in DOMAIN call.waits :
                  call.waits[k] = call.delay0 * pow2(k - 1)
            /\ call.at = "calling" => Len(call.waits) = call.calls
            /\ call.at = "waiting" => Len(call.waits) = call.calls - 1
            /\ call.at = "resolved" =>
                  /\ call.value = call.calls
                  /\ Len(call.waits) = call.calls - 1
            /\ call.at = "rejected" =>
                  /\ call.calls = call.retries0 + 1
                  /\ call.error = call.calls
                  /\ Len(call.waits) = call.retries0)
    /\ [][(call.fn = "retry" /\ call.at \in {"resolved", "rejected"})
             => call' = call]_vars
    /\ (call.fn = "retry"
          ~> (call.fn = "retry" /\ call.at \in {"resolved", "rejected"}))

(* a run of three retries that fails four times, and one that succeeds at  *)
(* its third call                                                          *)
C25_Witness ==
    /\ call.fn = "retry" /\ call.retries0 = 3 /\ call.delay0 = 1000
    /\ \/ call.at = "rejected" /\ call.waits = <<1000, 2000, 4000>>
       \/ call.at = "resolved" /\ call.calls = 3

(* C24: an approve and a reject of the same pending post (or two           *)
(* dispositions by admins) are not ordered: both can read the status       *)
(* pending and pass the guard, the save of each succeeds, and the stored   *)
(* status is that of the write that lands last.                            *)
C24_LastWriteWins ==
    [][\A r \in BagToSet(reqs) :
          (r.op \in {"approve", "reject"} /\ r.id \in DOMAIN posts /\ Save(r))
          => /\ Answered(r.op, 200)
             /\ posts'[r.id].status
                   = IF r.op = "approve" THEN "published" ELSE "rejected"]_vars

(* the reject's write has just landed on a post that an approve, which     *)
(* read it as pending as well, published in the meantime                   *)
C24_Witness ==
    /\ resp.op = "reject" /\ resp.code = 200
    /\ reqs = EmptyBag
    /\ \E i \in DOMAIN posts :
          /\ posts[i].status = "rejected"
          /\ posts[i].rejectionReason # NullStr
          /\ posts[i].isApproved /\ posts[i].isPublished
          /\ posts[i].approvedBy = "a1"

(* C26: a post with status published has isApproved and isPublished true   *)
(* and a publishedAt, whichever operation made it published.               *)
C26_PublishedIsApproved ==
    \A i \in DOMAIN posts :
        posts[i].status = "published"
        => /\ posts[i].isApproved
           /\ posts[i].isPublished
           /\ posts[i].publishedAt # NullDate

(* C27: a post with status rejected has isApproved and isPublished false,  *)
(* also after an approve and a reject have interleaved and after a         *)
(* published post went back to draft, was resubmitted and rejected.        *)
C27_RejectedIsUnpublished ==
    \A i \in DOMAIN posts :
        posts[i].status = "rejected"
        => ~posts[i].isApproved /\ ~posts[i].isPublished

(* C28: each completed GET /posts/:id of a published post adds exactly one *)
(* to the stored viewCount, in any interleaving; a GET of a post that is   *)
(* not published leaves it unchanged; the count is never negative.         *)
C28_ViewCount ==
    /\ [][/\ \A r \in BagToSet(reqs) :
                (r.op = "get" /\ r.id \in DOMAIN posts /\ Save(r))
                => posts'[r.id].viewCount = posts[r.id].viewCount + 1
          /\ \A id \in PostIds :
                (id \in DOMAIN posts /\ posts[id].status # "published"
                 /\ GetBegin(id))
                => Untouched]_vars
    /\ [](\A i \in DOMAIN posts : posts[i].viewCount >= 0)

LoggedOut(c) ==
    /\ c.state.user = "null"
    /\ c.state.token = "null"
    /\ ~c.state.isAuthenticated
    /\ c.localStorage = "null"

C30_LoadingEnds ==
    /\ <>(~call.state.isLoading)
    /\ [][\A r \in BagToSet(reqs), ok \in BOOLEAN :
             (r.op \in {"login", "register"} /\ MutationSettle(r, ok))
             => ~call'.state.isLoading]_vars

====
